---- MODULE Spec2Model ----
(***************************************************************************)
(* Control flow of train.py: main() parses the arguments, creates the save *)
(* directory, builds a frozen pretrained backbone with a new classifier    *)
(* head, loads the three data splits, trains with a periodic validation    *)
(* pass every print_every global steps, and writes one checkpoint.         *)
(*                                                                         *)
(* Tensors are abstracted: a parameter's value is the number of optimizer  *)
(* updates applied to it, a float sum of losses is the set of the steps    *)
(* whose loss terms it holds, and accuracies are exact rationals <<n, d>>. *)
(***************************************************************************)
EXTENDS Integers, Sequences, FiniteSets

\* ------------------------------------------------------------------ bounds
MaxEpochs == 7
MaxTrainBatches == 3
MaxValidBatches == 2
MaxPartialBatch == 1

\* ------------------------------------------------------- program constants
print_every == 10
batch_size == 64
DenseNetWidth == 1024
VggWidth == 25088
NumClasses == 102

VARIABLES
    pc,            \* position of the single thread of control
    failedAt,      \* the position an unhandled exception was raised at
    args,          \* argparse namespace
    save_dir,      \* main's local save_dir (a path), <<>> before line 32
    dirs,          \* the directories that exist, relative to the working directory
    dirCreated,    \* os.makedirs(args.save_dir) was called and returned
    modelBound,    \* main's local `model` is bound
    classifierBound, \* main's local `classifier` is bound
    input_layers,  \* main's local input_layers (0 is None)
    output_size,   \* main's local output_size (0 is None)
    modelParams,   \* the parameters model.parameters() yields
    requires_grad, \* per parameter
    grad,          \* per parameter: a gradient tensor is present
    value,         \* per parameter: number of optimizer updates applied
    training,      \* model.training (train mode / eval mode)
    optParams,     \* the parameters handed to optim.Adam
    trainLen,      \* len(dataloaders[0])
    validSizes,    \* sizes of the batches dataloaders[1] yields, in order
    epoch,         \* iterations of the outer loop begun (e + 1)
    remaining,     \* training batches the shuffled iterator has yet to yield
    yielded,       \* per training batch: how many times it was processed
    steps,         \* train_model's steps
    running_loss,  \* train_model's running_loss, as the set of summed steps
    vi,            \* validation batches consumed in the current pass
    accuracy,      \* train_model's accuracy accumulator, a rational
    passes,        \* completed periodic validation passes
    valForwards,   \* validation-batch forward passes performed in total
    stats,         \* the last printed [Stats] line
    written        \* the paths torch.save has been called with, in order

vars == <<pc, failedAt, args, save_dir, dirs, dirCreated, modelBound, classifierBound,
          input_layers, output_size, modelParams, requires_grad, grad, value,
          training, optParams, trainLen, validSizes, epoch, remaining, yielded,
          steps, running_loss, vi, accuracy, passes, valForwards, stats, written>>

mainVars == <<args, save_dir, dirs, dirCreated, modelBound, classifierBound,
              input_layers, output_size, written>>
netVars == <<modelParams, requires_grad, grad, value, training, optParams>>
dataVars == <<trainLen, validSizes>>
loopVars == <<epoch, remaining, yielded, steps, running_loss>>
evalVars == <<vi, accuracy, passes, valForwards, stats>>

\* ------------------------------------------------------------ paths
\* A path is a sequence of components and separators.
CheckpointName == <<"checkpoint.pth">>

SaveDirs == { <<".">>, <<"out">>, <<"out", "/">>, <<>> }

\* the directory a path names: a trailing separator is dropped
DirOf(path) ==
    IF path # <<>> /\ path[Len(path)] = "/" THEN SubSeq(path, 1, Len(path) - 1) ELSE path

\* os.path.join(a, b) for a relative b
JoinPath(a, b) ==
    IF a = <<>> THEN b
    ELSE IF a[Len(a)] = "/" THEN a \o b
    ELSE a \o <<"/">> \o b

\* The path torch.save is called with, given main's local save_dir.
\* (variant: the joined path is used)
SaveTargetInSaveDir(path) == path
SaveTarget(path) == CheckpointName

\* ------------------------------------------------------------ arguments
SupportedModels == {"densenet121", "vgg19"}
ModelNames == SupportedModels \cup {"vgg13"}

Defaults == [save_dir |-> <<".">>, model |-> "densenet121", epochs |-> 5]

\* epochs holds int(args.epochs) of a non-negative numeric argument; the
\* learning rate, hidden units, GPU flag and data path do not steer control.
ArgSpace == [save_dir : SaveDirs, model : ModelNames, epochs : 0..MaxEpochs]

\* ------------------------------------------------------------ parameters
BackboneParams == {"features.conv", "features.norm"}
PretrainedHeadParams == {"classifier.pretrained"}
HeadParams == {"classifier.input", "classifier.linear2", "classifier.linear3"}
AllParams == BackboneParams \cup PretrainedHeadParams \cup HeadParams

\* models.densenet121(pretrained=True) / models.vgg19(pretrained=True)
PretrainedParams == BackboneParams \cup PretrainedHeadParams

InputWidth(name) == IF name = "densenet121" THEN DenseNetWidth ELSE VggWidth

\* for param in model.parameters(): param.requires_grad = False
\* (freshly built nn.Linear layers require gradients by default)
Freeze(ps) == [p \in AllParams |-> p \notin ps]

\* model.classifier.parameters()
\* (variant: model.parameters())
AllOf(ps) == ps
ClassifierParameters(ps) == ps \ BackboneParams

\* ------------------------------------------------------------ rationals
RECURSIVE GCD(_, _)
GCD(a, b) == IF b = 0 THEN a ELSE GCD(b, a % b)

Rat(n, d) == LET g == GCD(n, d) IN <<n \div g, d \div g>>
RatAdd(x, y) == Rat(x[1] * y[2] + y[1] * x[2], x[2] * y[2])
RatDiv(x, k) == Rat(x[1], x[2] * k)
RatLeq(x, y) == x[1] * y[2] <= y[1] * x[2]

\* equality.type_as(torch.FloatTensor()).mean() for a batch of `size` samples
\* of which `correct` have arg-max class equal to the label
\* (variant: .sum() in place of .mean())
BatchCorrectCount(correct, size) == <<correct, 1>>
BatchAccuracy(correct, size) == Rat(correct, size)

\* the prediction patterns enumerated for a batch of `size` samples
CorrectCounts(size) == {0, 1, size - 1, size} \cap (0..size)

\* ------------------------------------------------------------ data loaders
\* sizes of the batches a DataLoader(batch_size=64) yields for n samples
LoaderLen(n) == (n + batch_size - 1) \div batch_size
BatchSizes(n) ==
    [i \in 1..LoaderLen(n) |->
        IF i < LoaderLen(n) THEN batch_size ELSE n - (LoaderLen(n) - 1) * batch_size]

PartialSizes == (1..MaxPartialBatch) \cup {batch_size}
DatasetSizes(maxBatches) ==
    {0} \cup { (k - 1) * batch_size + r : k \in 1..maxBatches, r \in PartialSizes }

NoStats == [epoch |-> 0, terms |-> {}, accuracy |-> <<0, 1>>]

Init ==
    /\ pc = "get_arguments"
    /\ failedAt = "none"
    /\ args = Defaults
    /\ save_dir = <<>>
    /\ dirs \in { {<<".">>}, {<<".">>, <<"out">>} }
    /\ dirCreated = FALSE
    /\ modelBound = FALSE
    /\ classifierBound = FALSE
    /\ input_layers = 0
    /\ output_size = 0
    /\ modelParams = {}
    /\ requires_grad = [p \in AllParams |-> TRUE]
    /\ grad = [p \in AllParams |-> FALSE]
    /\ value = [p \in AllParams |-> 0]
    /\ training = TRUE
    /\ optParams = {}
    /\ trainLen = 0
    /\ validSizes = <<>>
    /\ epoch = 0
    /\ remaining = {}
    /\ yielded = [b \in 1..MaxTrainBatches |-> 0]
    /\ steps = 0
    /\ running_loss = {}
    /\ vi = 0
    /\ accuracy = <<0, 1>>
    /\ passes = 0
    /\ valForwards = 0
    /\ stats = NoStats
    /\ written = <<>>

\* ------------------------------------------------------------ main
\* args = get_arguments()
GetArguments ==
    /\ pc = "get_arguments"
    /\ \E a \in ArgSpace : args' = a
    /\ pc' = "makedirs"
    /\ UNCHANGED <<failedAt, save_dir, dirs, dirCreated, modelBound, classifierBound,
                   input_layers, output_size, written>>
    /\ UNCHANGED <<netVars, dataVars, loopVars, evalVars>>

\* if not os.path.exists(args.save_dir): os.makedirs(args.save_dir)
\* save_dir = os.path.join(args.save_dir, 'checkpoint.pth')
\* (the empty path never exists and os.makedirs('') raises)
MakeSaveDir ==
    /\ pc = "makedirs"
    /\ IF DirOf(args.save_dir) \in dirs
       THEN /\ save_dir' = JoinPath(args.save_dir, CheckpointName)
            /\ pc' = "select"
            /\ UNCHANGED <<dirs, dirCreated, failedAt>>
       ELSE IF args.save_dir = <<>>
       THEN /\ pc' = "failed"
            /\ failedAt' = "makedirs"
            /\ UNCHANGED <<dirs, dirCreated, save_dir>>
       ELSE /\ dirs' = dirs \cup {DirOf(args.save_dir)}
            /\ dirCreated' = TRUE
            /\ save_dir' = JoinPath(args.save_dir, CheckpointName)
            /\ pc' = "select"
            /\ UNCHANGED failedAt
    /\ UNCHANGED <<args, modelBound, classifierBound, input_layers, output_size, written>>
    /\ UNCHANGED <<netVars, dataVars, loopVars, evalVars>>

\* if args.model == 'densenet121': ... elif args.model == 'vgg19': ...
\* (no else branch: any other name binds nothing)
\* (variant: a final else branch that builds the default model)
SelectModelWithDefault ==
    /\ pc = "select"
    /\ input_layers' = InputWidth(args.model)
    /\ output_size' = NumClasses
    /\ modelBound' = TRUE
    /\ classifierBound' = TRUE
    /\ modelParams' = PretrainedParams
    /\ requires_grad' = Freeze(PretrainedParams)
    /\ pc' = "attach"
    /\ UNCHANGED <<failedAt, args, save_dir, dirs, dirCreated, written>>
    /\ UNCHANGED <<grad, value, training, optParams>>
    /\ UNCHANGED <<dataVars, loopVars, evalVars>>

SelectModel ==
    /\ pc = "select"
    /\ IF args.model \in SupportedModels
       THEN /\ input_layers' = InputWidth(args.model)
            /\ output_size' = NumClasses
            /\ modelBound' = TRUE
            /\ classifierBound' = TRUE
            /\ modelParams' = PretrainedParams
            /\ requires_grad' = Freeze(PretrainedParams)
       ELSE UNCHANGED <<input_layers, output_size, modelBound, classifierBound,
                        modelParams, requires_grad>>
    /\ pc' = "attach"
    /\ UNCHANGED <<failedAt, args, save_dir, dirs, dirCreated, written>>
    /\ UNCHANGED <<grad, value, training, optParams>>
    /\ UNCHANGED <<dataVars, loopVars, evalVars>>

\* model.classifier = classifier
\* (UnboundLocalError when the names were never bound)
AttachClassifier ==
    /\ pc = "attach"
    /\ IF modelBound /\ classifierBound
       THEN /\ modelParams' = (modelParams \ PretrainedHeadParams) \cup HeadParams
            /\ pc' = "data_parser"
            /\ failedAt' = failedAt
       ELSE /\ modelParams' = modelParams
            /\ pc' = "failed"
            /\ failedAt' = "attach"
    /\ UNCHANGED mainVars
    /\ UNCHANGED <<requires_grad, grad, value, training, optParams>>
    /\ UNCHANGED <<dataVars, loopVars, evalVars>>

\* data_loaders, image_datasets, data_transforms = data_parser(args.data_path)
\* (ImageFolder raises on a split without images)
DataParser ==
    /\ pc = "data_parser"
    /\ \E nTrain \in DatasetSizes(MaxTrainBatches), nValid \in DatasetSizes(MaxValidBatches) :
        IF nTrain = 0 \/ nValid = 0
        THEN /\ pc' = "failed"
             /\ failedAt' = "data_parser"
             /\ UNCHANGED dataVars
        ELSE /\ trainLen' = LoaderLen(nTrain)
             /\ validSizes' = BatchSizes(nValid)
             /\ pc' = "optimizer"
             /\ failedAt' = failedAt
    /\ UNCHANGED mainVars
    /\ UNCHANGED <<netVars, loopVars, evalVars>>

\* if args.cuda: model = model.cuda()     (a fallible call without a state change)
\* criterion = nn.NLLLoss()
\* optimizer = optim.Adam(model.classifier.parameters(), lr=args.lr)
BuildOptimizer ==
    /\ pc = "optimizer"
    /\ optParams' = ClassifierParameters(modelParams)
    /\ pc' = "train_model"
    /\ UNCHANGED <<failedAt, mainVars>>
    /\ UNCHANGED <<modelParams, requires_grad, grad, value, training>>
    /\ UNCHANGED <<dataVars, loopVars, evalVars>>

\* ------------------------------------------------------------ train_model
\* start_time = time.time(); steps = 0; print_every = 10; model.cuda()/cpu()
TrainSetup ==
    /\ pc = "train_model"
    /\ steps' = 0
    /\ pc' = "epoch_loop"
    /\ UNCHANGED <<failedAt, mainVars, netVars, dataVars, evalVars>>
    /\ UNCHANGED <<epoch, remaining, yielded, running_loss>>

\* for e in range(epochs): another iteration is due after `done` iterations
\* (variant: range(epochs + 1))
LoopRunsOnceMore(done, n) == done <= n
LoopRuns(done, n) == done < n

\* for e in range(epochs): running_loss = 0; (the shuffled iterator restarts)
\* (variant: steps = 0 inside the outer loop)
EpochStartResettingSteps ==
    /\ pc = "epoch_loop"
    /\ LoopRuns(epoch, args.epochs)
    /\ epoch' = epoch + 1
    /\ running_loss' = {}
    /\ remaining' = 1..trainLen
    /\ steps' = 0
    /\ pc' = "batch_loop"
    /\ UNCHANGED <<failedAt, mainVars, netVars, dataVars, evalVars>>
    /\ UNCHANGED yielded

EpochStart ==
    /\ pc = "epoch_loop"
    /\ LoopRuns(epoch, args.epochs)
    /\ epoch' = epoch + 1
    /\ running_loss' = {}
    /\ remaining' = 1..trainLen
    /\ pc' = "batch_loop"
    /\ UNCHANGED <<failedAt, mainVars, netVars, dataVars, evalVars>>
    /\ UNCHANGED <<yielded, steps>>

\* if steps % print_every == 0
\* (variant: evaluate at the end of each epoch)
EvalDueAtEpochEnd(s, rem) == rem = {}
EvalDue(s, rem) == s % print_every = 0

\* where the batch loop continues: next batch, or next outer iteration
AfterBatch(rem) == IF rem = {} THEN "epoch_loop" ELSE "batch_loop"

\* One iteration of the batch loop up to the periodic-evaluation test:
\* steps += 1; optimizer.zero_grad(); forward; loss; loss.backward();
\* optimizer.step(); running_loss += loss
TrainBatch ==
    /\ pc = "batch_loop"
    /\ \E b \in remaining :
        /\ remaining' = remaining \ {b}
        /\ yielded' = [yielded EXCEPT ![b] = @ + 1]
    /\ steps' = steps + 1
    /\ grad' = [p \in AllParams |->
                    IF p \in modelParams /\ requires_grad[p] THEN TRUE
                    ELSE IF p \in optParams THEN FALSE
                    ELSE grad[p]]
    /\ value' = [p \in AllParams |->
                    IF p \in optParams /\ grad'[p] THEN value[p] + 1 ELSE value[p]]
    /\ running_loss' = running_loss \cup {steps'}
    /\ pc' = IF EvalDue(steps', remaining') THEN "eval" ELSE AfterBatch(remaining')
    /\ UNCHANGED <<failedAt, mainVars, dataVars, evalVars>>
    /\ UNCHANGED <<modelParams, requires_grad, training, optParams, epoch>>

\* model.eval(); accuracy = 0; validation_loss = 0
BeginEval ==
    /\ pc = "eval"
    /\ training' = FALSE
    /\ accuracy' = <<0, 1>>
    /\ vi' = 0
    /\ pc' = "val_loop"
    /\ UNCHANGED <<failedAt, mainVars, dataVars, loopVars>>
    /\ UNCHANGED <<modelParams, requires_grad, grad, value, optParams>>
    /\ UNCHANGED <<passes, valForwards, stats>>

\* for ii, (images, labels) in enumerate(dataloaders[1]): forward;
\* accuracy += equality.type_as(torch.FloatTensor()).mean()
ValBatch ==
    /\ pc = "val_loop"
    /\ vi < Len(validSizes)
    /\ vi' = vi + 1
    /\ \E correct \in CorrectCounts(validSizes[vi + 1]) :
        accuracy' = RatAdd(accuracy, BatchAccuracy(correct, validSizes[vi + 1]))
    /\ valForwards' = valForwards + 1
    /\ UNCHANGED <<pc, failedAt, mainVars, netVars, dataVars, loopVars>>
    /\ UNCHANGED <<passes, stats>>

\* the mode the model is left in after the [Stats] line: model.train()
\* (variant: model.train() omitted)
StayInEvalMode == FALSE
ModeAfterEval == TRUE

\* print("[Stats] -> ", ...); running_loss = 0; model.train()
EndEval ==
    /\ pc = "val_loop"
    /\ vi = Len(validSizes)
    /\ stats' = [epoch |-> epoch, terms |-> running_loss,
                 accuracy |-> RatDiv(accuracy, Len(validSizes))]
    /\ running_loss' = {}
    /\ training' = ModeAfterEval
    /\ passes' = passes + 1
    /\ pc' = AfterBatch(remaining)
    /\ UNCHANGED <<failedAt, mainVars, dataVars>>
    /\ UNCHANGED <<modelParams, requires_grad, grad, value, optParams>>
    /\ UNCHANGED <<epoch, remaining, yielded, steps, vi, accuracy, valForwards>>

\* the outer loop is exhausted: elapsed_time is printed, train_model returns
TrainReturn ==
    /\ pc = "epoch_loop"
    /\ ~LoopRuns(epoch, args.epochs)
    /\ pc' = "save"
    /\ UNCHANGED <<failedAt, mainVars, netVars, dataVars, loopVars, evalVars>>

\* ------------------------------------------------------------ main, end
\* checkpoint = {...}; torch.save(checkpoint, 'checkpoint.pth')
SaveCheckpoint ==
    /\ pc = "save"
    /\ written' = Append(written, SaveTarget(save_dir))
    /\ pc' = "done"
    /\ UNCHANGED <<failedAt, args, save_dir, dirs, dirCreated, modelBound, classifierBound,
                   input_layers, output_size>>
    /\ UNCHANGED <<netVars, dataVars, loopVars, evalVars>>

\* Positions at which a library call can raise (out of memory, device
\* mismatch, malformed batch, I/O error).  Nothing catches the exception.
Fallible == {"data_parser", "optimizer", "train_model", "batch_loop", "val_loop", "save"}

\* (variant: the checkpoint is saved from an exception handler)
RaiseThenSave ==
    /\ pc \in Fallible
    /\ pc' = "failed"
    /\ failedAt' = pc
    /\ written' = Append(written, SaveTarget(save_dir))
    /\ UNCHANGED <<args, save_dir, dirs, dirCreated, modelBound, classifierBound,
                   input_layers, output_size>>
    /\ UNCHANGED <<netVars, dataVars, loopVars, evalVars>>

Raise ==
    /\ pc \in Fallible
    /\ pc' = "failed"
    /\ failedAt' = pc
    /\ UNCHANGED <<mainVars, netVars, dataVars, loopVars, evalVars>>

Next ==
    \/ GetArguments
    \/ MakeSaveDir
    \/ SelectModel
    \/ AttachClassifier
    \/ DataParser
    \/ BuildOptimizer
    \/ TrainSetup
    \/ EpochStart
    \/ TrainBatch
    \/ BeginEval
    \/ ValBatch
    \/ EndEval
    \/ TrainReturn
    \/ SaveCheckpoint
    \/ Raise

Spec == Init /\ [][Next]_vars

\* ------------------------------------------------------------ properties
InTrainModel == pc \in {"train_model", "epoch_loop", "batch_loop", "eval", "val_loop"}
Returned == pc \in {"save", "done"}

\* C1: with a supported model name and epochs = 0, train_model returns
\* without having run a training batch or an optimizer step, every head
\* parameter still has its initial value, and the run that completes has
\* written the checkpoint.
C1_ZeroEpochsNoUpdate ==
    (args.epochs = 0 /\ Returned) =>
        /\ args.model \in SupportedModels
        /\ epoch = 0
        /\ steps = 0
        /\ \A p \in AllParams : value[p] = 0 /\ ~grad[p]
        /\ pc = "done" => written = <<CheckpointName>>

C1_Witness ==
    /\ args.epochs = 0
    /\ pc = "done"
    /\ written = <<CheckpointName>>
    /\ optParams = HeadParams

\* C2: the backbone parameters keep their pretrained values in every
\* state: they are frozen from model construction on, never hold a
\* gradient, the optimizer is built over the head parameters only, and each
\* optimizer step updates exactly the head parameters.
C2_BackboneFrozen ==
    /\ \A p \in BackboneParams : value[p] = 0 /\ ~grad[p]
    /\ modelBound => \A p \in BackboneParams : ~requires_grad[p]
    /\ pc \notin {"get_arguments", "makedirs", "select", "attach", "failed"} =>
            \A p \in HeadParams : p \in modelParams /\ requires_grad[p]
    /\ optParams \cap BackboneParams = {}
    /\ (InTrainModel \/ Returned) =>
            /\ optParams = HeadParams
            /\ \A p \in HeadParams : value[p] = steps

C2_Witness ==
    /\ args.model = "vgg19"
    /\ pc = "batch_loop"
    /\ steps >= 2
    /\ \A p \in HeadParams : value[p] = steps
    /\ \A p \in BackboneParams : value[p] = 0

C5_AccuracyInUnitInterval ==
    /\ passes > 0 =>
            /\ RatLeq(<<0, 1>>, stats.accuracy)
            /\ RatLeq(stats.accuracy, <<1, 1>>)
    /\ (pc = "val_loop" /\ vi = Len(validSizes)) =>
            /\ RatLeq(<<0, 1>>, RatDiv(accuracy, Len(validSizes)))
            /\ RatLeq(RatDiv(accuracy, Len(validSizes)), <<1, 1>>)

C5_Witness ==
    /\ passes > 0
    /\ Len(validSizes) = 2
    /\ validSizes = <<batch_size, 1>>
    /\ stats.accuracy = <<127, 128>>

\* C6: the outer loop runs exactly epochs times and each of the
\* len(dataloaders[0]) training batches is processed exactly once per
\* epoch; steps grows by one per batch and is never reset, so it never
\* decreases and is epochs * len(dataloaders[0]) when train_model returns.
C6_LoopPosition ==
    /\ pc \in {"batch_loop", "eval", "val_loop"} =>
            /\ epoch \in 1..args.epochs
            /\ \A b \in 1..trainLen :
                    yielded[b] = IF b \in remaining THEN epoch - 1 ELSE epoch
            /\ steps = (epoch - 1) * trainLen + Cardinality((1..trainLen) \ remaining)
    /\ pc = "epoch_loop" =>
            /\ epoch \in 0..args.epochs
            /\ \A b \in 1..trainLen : yielded[b] = epoch
            /\ steps = epoch * trainLen
    /\ Returned =>
            /\ epoch = args.epochs
            /\ \A b \in 1..trainLen : yielded[b] = args.epochs
            /\ steps = args.epochs * trainLen

C6_EpochsTimesBatches ==
    /\ []C6_LoopPosition
    /\ [][steps' >= steps /\ steps' <= steps + 1]_vars

C6_Witness ==
    /\ pc = "save"
    /\ args.epochs = 3
    /\ trainLen = 3
    /\ steps = 9

\* C7: a periodic validation pass starts right after a training step,
\* before the next one, exactly when steps is then a multiple of
\* print_every = 10, wherever in the epoch that is; each pass forwards every
\* validation batch once; a run performs (epochs * batches) div 10 passes.
C7_PassCount ==
    /\ pc \in {"epoch_loop", "batch_loop"} \cup {"save", "done"} =>
            passes = steps \div print_every
    /\ pc \in {"eval", "val_loop"} =>
            /\ steps > 0
            /\ steps % print_every = 0
            /\ passes = (steps \div print_every) - 1
    /\ (InTrainModel \/ Returned) =>
            valForwards = passes * Len(validSizes) + (IF pc = "val_loop" THEN vi ELSE 0)
    /\ Returned => passes = (args.epochs * trainLen) \div print_every

C7_EvalEveryTenSteps ==
    /\ []C7_PassCount
    /\ [][(pc = "batch_loop" /\ steps' = steps + 1) =>
            ((pc' = "eval") <=> (steps' % print_every = 0))]_vars
    /\ [][(pc = "eval" \/ (pc = "val_loop" /\ pc' = "val_loop")) => steps' = steps]_vars
    /\ [][passes' # passes => (vi = Len(validSizes) /\ passes' = passes + 1)]_vars

C7_Witness ==
    /\ pc = "save"
    /\ trainLen = 3
    /\ steps = 21
    /\ passes = 2
    /\ valForwards = 2 * Len(validSizes)
    /\ stats.epoch = 7

\* C8: the model is in evaluation mode at every validation-batch forward
\* pass and in training mode at every training batch (forward pass and
\* optimizer step): eval mode is entered before a pass, train mode is
\* restored after it, before the next training batch.
C8_ModeMatchesPhase ==
    /\ pc = "val_loop" => ~training
    /\ pc \in {"epoch_loop", "batch_loop", "eval"} => training

C8_Witness ==
    /\ pc = "batch_loop"
    /\ passes >= 1
    /\ training
    /\ steps % print_every = 0

\* C9: torch.save is called at most once, and only after train_model has
\* returned with every epoch completed; nothing is written while the loop
\* runs; a run in which a step raised has written nothing and takes no
\* further step.
C9_SingleFinalCheckpoint ==
    /\ Len(written) <= 1
    /\ written # <<>> =>
            /\ pc = "done"
            /\ epoch = args.epochs
            /\ steps = args.epochs * trainLen
            /\ remaining = {}
    /\ pc = "failed" => (written = <<>> /\ ~ENABLED Next)

C9_Witness ==
    /\ pc = "failed"
    /\ failedAt = "val_loop"
    /\ steps = print_every
    /\ written = <<>>

\* C10: whenever a periodic validation pass runs, running_loss (divided by
\* print_every for the printed training loss) holds the losses of exactly
\* the print_every training steps taken since the previous pass.
C10_RunningLossCoversTenSteps ==
    pc \in {"eval", "val_loop"} => running_loss = (steps - print_every + 1)..steps
====
